---- MODULE Spec2Model ----
(***************************************************************************)
(* Model of test_files/frustum_math.py: the quaternion helpers             *)
(* from_axis_angle and mul_quat_vec, and find_planes, which derives the    *)
(* four side-plane normals of a view frustum.                              *)
(*                                                                         *)
(* Numbers.  The program computes in IEEE doubles; the model computes in   *)
(* exact real arithmetic over the field Q(sqrt 2), so rounding error is    *)
(* not modelled and "equal within tolerance" becomes "equal".  A number is *)
(* a record [a, b, d] standing for (a + b*sqrt(2)) / d with d > 0 and      *)
(* gcd(a, b, d) = 1.  Two further values exist:                            *)
(*   NaN    (d = 0)   what numpy yields for 0/0 and propagates;            *)
(*   Unrep  (d = -1)  a real number outside Q(sqrt 2) (a square root that  *)
(*                    is not exact); it propagates like NaN.  Init keeps   *)
(*                    inputs for which no Unrep arises (see Exact).        *)
(*                                                                         *)
(* Angles.  sin and cos are evaluated only at half of an angle             *)
(* (from_axis_angle) and tan only at the angle itself, so an angle theta   *)
(* is the record [sh, ch] = (sin(theta/2), cos(theta/2)).                  *)
(***************************************************************************)
EXTENDS Integers, Sequences, FiniteSets, TLC

\* ------------------------------------------------------------ bounds
\* Input vectors target and up are k * direction for k in 1..MaxScale.
MaxScale == 2
\* Field-of-view half angles come from the rational points
\* (2pq, q^2 - p^2) / (p^2 + q^2) of the unit circle with 1 <= p < q <= MaxQ.
MaxQ == 4
\* Components of the vector rotated by the quaternion primitive: -MaxV..MaxV.
MaxV == 1

\* ------------------------------------------------------------ integers
Abs(n) == IF n < 0 THEN -n ELSE n

RECURSIVE GCD(_, _)
GCD(x, y) == IF y = 0 THEN x ELSE GCD(y, x % y)

RECURSIVE ISqrtIn(_, _, _)
ISqrtIn(n, lo, hi) ==
  IF lo >= hi THEN lo
  ELSE LET mid == (lo + hi + 1) \div 2
       IN IF mid * mid <= n THEN ISqrtIn(n, mid, hi) ELSE ISqrtIn(n, lo, mid - 1)

\* floor of the square root of n >= 0
ISqrt(n) == ISqrtIn(n, 0, IF n < 46340 THEN n ELSE 46340)

IsSquare(n) == n >= 0 /\ ISqrt(n) * ISqrt(n) = n

\* ------------------------------------------------------------ numbers
NaN == [a |-> 0, b |-> 0, d |-> 0]
Unrep == [a |-> 0, b |-> 0, d |-> -1]

IsNum(x) == x.d > 0

\* (a + b*sqrt 2) / d in lowest terms with a positive denominator
Mk(a, b, d) ==
  IF d = 0 THEN NaN
  ELSE LET g == GCD(GCD(Abs(a), Abs(b)), Abs(d))
           s == IF d < 0 THEN -1 ELSE 1
       IN [a |-> (s * a) \div g, b |-> (s * b) \div g, d |-> (s * d) \div g]

Rat(n, d) == Mk(n, 0, d)
Int2Num(n) == Mk(n, 0, 1)
Zero == Int2Num(0)
One == Int2Num(1)
Two == Int2Num(2)

\* the value of an operation one of whose operands is not a number
Poison(x, y) == IF x.d = 0 \/ y.d = 0 THEN NaN ELSE Unrep

Add(x, y) ==
  IF ~(IsNum(x) /\ IsNum(y)) THEN Poison(x, y)
  ELSE LET g == GCD(x.d, y.d)
           m == y.d \div g
           n == x.d \div g
       IN Mk(x.a * m + y.a * n, x.b * m + y.b * n, x.d * m)

Neg(x) == IF ~IsNum(x) THEN x ELSE Mk(-x.a, -x.b, x.d)

Sub(x, y) == Add(x, Neg(y))

Mul(x, y) ==
  IF ~(IsNum(x) /\ IsNum(y)) THEN Poison(x, y)
  ELSE LET g == GCD(GCD(Abs(x.a), Abs(x.b)), y.d)
           h == GCD(GCD(Abs(y.a), Abs(y.b)), x.d)
           xa == x.a \div g
           xb == x.b \div g
           ya == y.a \div h
           yb == y.b \div h
       IN Mk(xa * ya + 2 * xb * yb, xa * yb + xb * ya, (x.d \div h) * (y.d \div g))

\* x / y.  A zero divisor gives NaN: the program divides only by the norm of
\* the vector being divided, which is zero only when that vector is zero (0/0).
Div(x, y) ==
  IF ~(IsNum(x) /\ IsNum(y)) THEN Poison(x, y)
  ELSE Mul(x, Mk(y.d * y.a, -(y.d * y.b), y.a * y.a - 2 * y.b * y.b))

\* -1, 0 or 1: the sign of a number
Sign(x) ==
  LET a == x.a
      b == x.b
  IN IF a >= 0 /\ b >= 0 THEN (IF a = 0 /\ b = 0 THEN 0 ELSE 1)
     ELSE IF a <= 0 /\ b <= 0 THEN -1
     ELSE IF a > 0 THEN (IF a * a > 2 * b * b THEN 1 ELSE -1)
     ELSE (IF 2 * b * b > a * a THEN 1 ELSE -1)

\* x > y as the program's comparison evaluates it: False when either is NaN
Gt(x, y) == IsNum(x) /\ IsNum(y) /\ Sign(Sub(x, y)) = 1

AbsNum(x) == IF IsNum(x) /\ Sign(x) < 0 THEN Neg(x) ELSE x

\* The square root: exact when x is a rational whose root lies in Q(sqrt 2).
Sqrt(x) ==
  IF ~IsNum(x) THEN x
  ELSE IF x.b # 0 THEN Unrep
  ELSE IF x.a < 0 THEN NaN
  ELSE IF IsSquare(x.a) /\ IsSquare(x.d) THEN Mk(ISqrt(x.a), 0, ISqrt(x.d))
  ELSE IF x.a % 2 = 0 /\ IsSquare(x.a \div 2) /\ IsSquare(x.d)
       THEN Mk(0, ISqrt(x.a \div 2), ISqrt(x.d))
  ELSE IF x.d % 2 = 0 /\ IsSquare(x.a) /\ IsSquare(x.d \div 2)
       THEN Mk(0, ISqrt(x.a), 2 * ISqrt(x.d \div 2))
  ELSE Unrep

\* ------------------------------------------------------------ vectors
Vec(x, y, z) == <<Int2Num(x), Int2Num(y), Int2Num(z)>>

IsVec(v) == IsNum(v[1]) /\ IsNum(v[2]) /\ IsNum(v[3])

VAdd(u, v) == <<Add(u[1], v[1]), Add(u[2], v[2]), Add(u[3], v[3])>>

VScale(v, k) == <<Mul(v[1], k), Mul(v[2], k), Mul(v[3], k)>>

VDiv(v, k) == <<Div(v[1], k), Div(v[2], k), Div(v[3], k)>>

VNeg(v) == <<Neg(v[1]), Neg(v[2]), Neg(v[3])>>

Dot(u, v) == Add(Add(Mul(u[1], v[1]), Mul(u[2], v[2])), Mul(u[3], v[3]))

Cross(u, v) ==
  << Sub(Mul(u[2], v[3]), Mul(u[3], v[2])),
     Sub(Mul(u[3], v[1]), Mul(u[1], v[3])),
     Sub(Mul(u[1], v[2]), Mul(u[2], v[1])) >>

Norm(v) == Sqrt(Dot(v, v))

Normalize(v) == VDiv(v, Norm(v))

\* ------------------------------------------------------------ angles
\* An angle theta, given by the sine and cosine of theta / 2.
Angle(sh, ch) == [sh |-> sh, ch |-> ch]

\* -theta
AngleNeg(t) == Angle(Neg(t.sh), t.ch)

\* np.sin(angle / 2), np.cos(angle / 2)
SinHalf(t) == t.sh
CosHalf(t) == t.ch

\* np.tan(angle) = sin / cos by the double-angle formulas
Tan(t) ==
  Div(Mul(Two, Mul(t.sh, t.ch)), Sub(Mul(t.ch, t.ch), Mul(t.sh, t.sh)))

\* np.atan(x): the angle in (-pi/2, pi/2) whose tangent is x.  With
\* r = sqrt(1 + x^2), tan(theta/2) = (r - 1) / x, and the half-angle sine and
\* cosine follow from it.
Atan(x) ==
  IF ~IsNum(x) THEN Angle(x, x)
  ELSE IF Sign(x) = 0 THEN Angle(Zero, One)
  ELSE LET r == Sqrt(Add(One, Mul(x, x)))
           t == Div(Sub(r, One), x)
           n == Sqrt(Add(One, Mul(t, t)))
       IN Angle(Div(t, n), Div(One, n))

\* math.pi / 2: sin(pi/4) = cos(pi/4) = sqrt(2)/2
HalfPi == Angle(Mk(0, 1, 2), Mk(0, 1, 2))

\* np.deg2rad(fovy) * 0.5.  A field of view is given by the sine and cosine of
\* a quarter of it, which are the half-angle sine and cosine of fovy / 2.
HalfFov(fovy) == Angle(fovy.sq, fovy.cq)

\* ------------------------------------------------------------ quaternions
\* from_axis_angle with the sine used for the scalar part as well
from_axis_angle_SineScalar(axis, angle) ==
  LET s == SinHalf(angle)
      vector == VScale(axis, s)
  IN <<vector[1], vector[2], vector[3], s>>

\* from_axis_angle(axis, angle): [x, y, z, w]
from_axis_angle(axis, angle) ==
  LET s == SinHalf(angle)
      c == CosHalf(angle)
      scalar == c
      vector == VScale(axis, s)
  IN <<vector[1], vector[2], vector[3], scalar>>

\* mul_quat_vec without the q[3] factor in tmp
mul_quat_vec_NoScalar(q, v) ==
  LET vec == <<q[1], q[2], q[3]>>
      tmp == VAdd(Cross(vec, v), v)
  IN VAdd(VScale(Cross(vec, tmp), Two), v)

\* mul_quat_vec with tmp = cross(vec, v) - v * q[3]
mul_quat_vec_SignSlip(q, v) ==
  LET vec == <<q[1], q[2], q[3]>>
      tmp == VAdd(Cross(vec, v), VNeg(VScale(v, q[4])))
  IN VAdd(VScale(Cross(vec, tmp), Two), v)

\* mul_quat_vec(q, v)
mul_quat_vec(q, v) ==
  LET vec == <<q[1], q[2], q[3]>>
      tmp == VAdd(Cross(vec, v), VScale(v, q[4]))
  IN VAdd(VScale(Cross(vec, tmp), Two), v)

\* ------------------------------------------------------------ find_planes
\* Parameters f, u, r, h, hh stand for front, up_norm, right, half_fov_rad and
\* half_fov_h_rad.

\* line 29: front = target / np.linalg.norm(target)
FrontOf(t) == VDiv(t, Norm(t))

\* line 30: up_norm = up / np.linalg.norm(up)
UpNormOf(w) == VDiv(w, Norm(w))

\* RightOf with the operands of the second component of the cross product swapped
RightOf_SignSlip(f, u) ==
  LET cr == << Sub(Mul(f[2], u[3]), Mul(f[3], u[2])),
               Sub(Mul(f[1], u[3]), Mul(f[3], u[1])),
               Sub(Mul(f[1], u[2]), Mul(f[2], u[1])) >>
  IN VDiv(cr, Norm(cr))

\* lines 31-32: right = np.cross(front, up_norm); right /= norm(right)
RightOf(f, u) ==
  LET cr == Cross(f, u)
  IN VDiv(cr, Norm(cr))

\* line 38
HalfFovRad(fov) == HalfFov(fov)

\* line 39
HalfFovHRad(h, asp) == Atan(Mul(Tan(h), asp))

\* lines 64-68
TopNormalOf(f, r, h) ==
  LET first_rotation == from_axis_angle(r, h)
      top_direction == mul_quat_vec(first_rotation, f)
      second_rotation == from_axis_angle(r, AngleNeg(HalfPi))
      n == mul_quat_vec(second_rotation, top_direction)
  IN VDiv(n, Norm(n))

\* BottomNormalOf as a copy of the top construction with the signs left as they were
BottomNormalOf_CopiedSigns(f, r, h) == TopNormalOf(f, r, h)

\* lines 78-82
BottomNormalOf(f, r, h) ==
  LET first_rotation == from_axis_angle(r, AngleNeg(h))
      bottom_direction == mul_quat_vec(first_rotation, f)
      second_rotation == from_axis_angle(r, HalfPi)
      n == mul_quat_vec(second_rotation, bottom_direction)
  IN VDiv(n, Norm(n))

\* lines 85-89
LeftNormalOf(f, u, hh) ==
  LET left_edge_rotation == from_axis_angle(u, hh)
      left_edge_direction == mul_quat_vec(left_edge_rotation, f)
      n == Cross(left_edge_direction, u)
  IN VDiv(n, Norm(n))

\* lines 92-96
RightNormalOf(f, u, hh) ==
  LET right_edge_rotation == from_axis_angle(u, AngleNeg(hh))
      right_edge_direction == mul_quat_vec(right_edge_rotation, f)
      n == Cross(right_edge_direction, u)
  IN VDiv(n, Norm(n))

\* PlaneOf with the offset of the convention a*x + b*y + c*z + d = 0
PlaneOf_NegatedD(n, position) ==
  [a |-> n[1], b |-> n[2], c |-> n[3], d |-> Neg(Dot(n, position))]

\* lines 109-110 and 117-118: a, b, c = normal; d = np.dot(normal, position)
PlaneOf(n, position) == [a |-> n[1], b |-> n[2], c |-> n[3], d |-> Dot(n, position)]

\* lines 112 and 120: abs(c) > 1e-6
Eps == Rat(1, 1000000)

Plotted(pl) == Gt(AbsNum(pl.c), Eps)

\* ------------------------------------------------------------ inputs
\* sine and cosine of a quarter of the vertical field of view
FovySet ==
  { [sq |-> Rat(2 * p * q, p * p + q * q), cq |-> Rat(q * q - p * p, p * p + q * q)] :
      <<p, q>> \in { pq \in (1..MaxQ) \X (1..MaxQ) :
                       /\ pq[1] < pq[2]
                       /\ 2 * pq[1] * pq[2] < pq[2] * pq[2] - pq[1] * pq[1] } }

\* aspect ratios tan(hh) / tan(h) that make the horizontal half angle hh one of
\* the angles above; hh = h gives aspect 1
AspectSet(fov) == { Div(Tan(HalfFov(g)), Tan(HalfFov(fov))) : g \in FovySet }

EyeSet == { Vec(0, 0, 0), Vec(10, 10, 10), Vec(1, -2, 3) }

TargetDirs == { <<0, 0, -1>>, <<1, 0, 0>>, <<3, 0, -4>>, <<0, 0, 0>> }

UpDirs == { <<0, 1, 0>>, <<0, 4, 3>>, <<0, 0, -1>>, <<0, 0, 0>> }

Scaled(dirs) ==
  { Vec(k * dv[1], k * dv[2], k * dv[3]) : <<k, dv>> \in (1..MaxScale) \X dirs }

\* The basis of these inputs lies in Q(sqrt 2): no norm is an inexact root.
\* (The normals then do too: see NoUnrep.)
IsRep(x) == x[1].d >= 0 /\ x[2].d >= 0 /\ x[3].d >= 0

Exact(t, w) ==
  /\ IsRep(FrontOf(t))
  /\ IsRep(UpNormOf(w))
  /\ IsRep(RightOf(FrontOf(t), UpNormOf(w)))

\* unit axes, angles and vectors for the quaternion primitive
AxisSet ==
  { Normalize(Vec(dv[1], dv[2], dv[3])) :
      dv \in { <<1, 0, 0>>, <<0, 1, 0>>, <<0, 0, -1>>, <<1, 2, 2>>, <<3, 0, -4>>, <<1, 1, 0>> } }

AngleSet ==
  LET pos == { HalfFov(g) : g \in FovySet } \cup { HalfPi, Angle(One, Zero) }
  IN pos \cup { AngleNeg(t) : t \in pos } \cup { Angle(Zero, One) }

VSet == { Vec(x, y, z) : <<x, y, z>> \in (-MaxV..MaxV) \X (-MaxV..MaxV) \X (-MaxV..MaxV) }

\* ------------------------------------------------------------ state
VARIABLES
  pc,             \* position in find_planes, or in the rotation sequence
  eye, target, up, aspect, fovy,          \* arguments of find_planes
  front, up_norm, right,                  \* lines 29-32
  half_fov_rad, half_fov_h_rad,           \* lines 38-39
  top_normal, bottom_normal, left_normal, right_normal,
  planes,         \* the (a, b, c, d) formed at lines 109-110 and 117-118, by side
  wireframes,     \* the sides drawn by plot_wireframe
  ret,            \* what the call returned
  axis, angle, v, \* arguments of from_axis_angle and mul_quat_vec
  quat, rotated, restored

fpVars == << eye, target, up, aspect, fovy, front, up_norm, right, half_fov_rad,
             half_fov_h_rad, top_normal, bottom_normal, left_normal, right_normal,
             planes, wireframes, ret >>

rotVars == << axis, angle, v, quat, rotated, restored >>

vars == << pc, fpVars, rotVars >>

Unset == "unset"

\* A call find_planes(eye, target, up, aspect, fovy, znear, zfar) is about to run.
\* znear and zfar are never read.
InitPlanes ==
  /\ pc = "start"
  /\ target \in Scaled(TargetDirs)
  /\ up \in Scaled(UpDirs)
  /\ Exact(target, up)
  /\ fovy \in FovySet
  /\ aspect \in AspectSet(fovy)
  /\ eye \in EyeSet
  /\ front = Unset /\ up_norm = Unset /\ right = Unset
  /\ half_fov_rad = Unset /\ half_fov_h_rad = Unset
  /\ top_normal = Unset /\ bottom_normal = Unset
  /\ left_normal = Unset /\ right_normal = Unset
  /\ planes = << >> /\ wireframes = {} /\ ret = Unset
  /\ axis = Unset /\ angle = Unset /\ v = Unset
  /\ quat = Unset /\ rotated = Unset /\ restored = Unset

\* A rotation of v about a unit axis, and back, is about to run.
InitRot ==
  /\ pc = "rot_start"
  /\ axis \in AxisSet
  /\ angle \in AngleSet
  /\ v \in VSet
  /\ quat = Unset /\ rotated = Unset /\ restored = Unset
  /\ eye = Unset /\ target = Unset /\ up = Unset /\ aspect = Unset /\ fovy = Unset
  /\ front = Unset /\ up_norm = Unset /\ right = Unset
  /\ half_fov_rad = Unset /\ half_fov_h_rad = Unset
  /\ top_normal = Unset /\ bottom_normal = Unset
  /\ left_normal = Unset /\ right_normal = Unset
  /\ planes = << >> /\ wireframes = {} /\ ret = Unset

Init == InitPlanes \/ InitRot

\* ------------------------------------------------------------ find_planes, step by step
\* lines 28-32
BuildBasis ==
  /\ pc = "start"
  /\ front' = FrontOf(target)
  /\ up_norm' = UpNormOf(up)
  /\ right' = RightOf(FrontOf(target), UpNormOf(up))
  /\ pc' = "basis"
  /\ UNCHANGED << eye, target, up, aspect, fovy, half_fov_rad, half_fov_h_rad,
                  top_normal, bottom_normal, left_normal, right_normal,
                  planes, wireframes, ret, rotVars >>

\* lines 38-39
HalfAngles ==
  /\ pc = "basis"
  /\ half_fov_rad' = HalfFovRad(fovy)
  /\ half_fov_h_rad' = HalfFovHRad(HalfFovRad(fovy), aspect)
  /\ pc' = "angles"
  /\ UNCHANGED << eye, target, up, aspect, fovy, front, up_norm, right,
                  top_normal, bottom_normal, left_normal, right_normal,
                  planes, wireframes, ret, rotVars >>

\* lines 64-68
TopNormal ==
  /\ pc = "angles"
  /\ top_normal' = TopNormalOf(front, right, half_fov_rad)
  /\ pc' = "top"
  /\ UNCHANGED << eye, target, up, aspect, fovy, front, up_norm, right,
                  half_fov_rad, half_fov_h_rad, bottom_normal, left_normal,
                  right_normal, planes, wireframes, ret, rotVars >>

\* lines 78-82
BottomNormal ==
  /\ pc = "top"
  /\ bottom_normal' = BottomNormalOf(front, right, half_fov_rad)
  /\ pc' = "bottom"
  /\ UNCHANGED << eye, target, up, aspect, fovy, front, up_norm, right,
                  half_fov_rad, half_fov_h_rad, top_normal, left_normal,
                  right_normal, planes, wireframes, ret, rotVars >>

\* lines 85-89
LeftNormal ==
  /\ pc = "bottom"
  /\ left_normal' = LeftNormalOf(front, up_norm, half_fov_h_rad)
  /\ pc' = "left"
  /\ UNCHANGED << eye, target, up, aspect, fovy, front, up_norm, right,
                  half_fov_rad, half_fov_h_rad, top_normal, bottom_normal,
                  right_normal, planes, wireframes, ret, rotVars >>

\* lines 92-96
RightNormal ==
  /\ pc = "left"
  /\ right_normal' = RightNormalOf(front, up_norm, half_fov_h_rad)
  /\ pc' = "right"
  /\ UNCHANGED << eye, target, up, aspect, fovy, front, up_norm, right,
                  half_fov_rad, half_fov_h_rad, top_normal, bottom_normal,
                  left_normal, planes, wireframes, ret, rotVars >>

\* lines 109-114: the top plane; drawn when abs(c) > 1e-6
PlaneTop ==
  /\ pc = "right"
  /\ planes' = [ s \in {"top"} |-> PlaneOf(top_normal, eye) ]
  /\ wireframes' = IF Plotted(PlaneOf(top_normal, eye)) THEN {"top"} ELSE {}
  /\ pc' = "plane_top"
  /\ UNCHANGED << eye, target, up, aspect, fovy, front, up_norm, right,
                  half_fov_rad, half_fov_h_rad, top_normal, bottom_normal,
                  left_normal, right_normal, ret, rotVars >>

\* lines 117-122: the bottom plane.  Lines 125-138, which would do the same for
\* the left and right normals, are commented out.
PlaneBottom ==
  /\ pc = "plane_top"
  /\ planes' = [ s \in {"top", "bottom"} |->
                   IF s = "top" THEN planes["top"] ELSE PlaneOf(bottom_normal, eye) ]
  /\ wireframes' = wireframes \cup
                     (IF Plotted(PlaneOf(bottom_normal, eye)) THEN {"bottom"} ELSE {})
  /\ pc' = "plane_bottom"
  /\ UNCHANGED << eye, target, up, aspect, fovy, front, up_norm, right,
                  half_fov_rad, half_fov_h_rad, top_normal, bottom_normal,
                  left_normal, right_normal, ret, rotVars >>

\* Python values a call can return, tagged with their type
None == [type |-> "NoneType"]

\* a find_planes that ended with "return" of the planes it formed
ReturnValue_Planes == [type |-> "dict", value |-> planes]

\* find_planes has no return statement: the caller receives None.
ReturnValue == None

\* lines 141-146: the function ends
Return ==
  /\ pc = "plane_bottom"
  /\ ret' = ReturnValue
  /\ pc' = "done"
  /\ UNCHANGED << eye, target, up, aspect, fovy, front, up_norm, right,
                  half_fov_rad, half_fov_h_rad, top_normal, bottom_normal,
                  left_normal, right_normal, planes, wireframes, rotVars >>

\* ------------------------------------------------------------ the rotation primitive
\* q = from_axis_angle(axis, angle)
RotQuat ==
  /\ pc = "rot_start"
  /\ quat' = from_axis_angle(axis, angle)
  /\ pc' = "rot_quat"
  /\ UNCHANGED << fpVars, axis, angle, v, rotated, restored >>

\* mul_quat_vec(q, v)
RotApply ==
  /\ pc = "rot_quat"
  /\ rotated' = mul_quat_vec(quat, v)
  /\ pc' = "rot_applied"
  /\ UNCHANGED << fpVars, axis, angle, v, quat, restored >>

\* mul_quat_vec(from_axis_angle(axis, -angle), rotated)
RotBack ==
  /\ pc = "rot_applied"
  /\ restored' = mul_quat_vec(from_axis_angle(axis, AngleNeg(angle)), rotated)
  /\ pc' = "rot_done"
  /\ UNCHANGED << fpVars, axis, angle, v, quat, rotated >>

Next ==
  \/ BuildBasis \/ HalfAngles \/ TopNormal \/ BottomNormal \/ LeftNormal
  \/ RightNormal \/ PlaneTop \/ PlaneBottom \/ Return
  \/ RotQuat \/ RotApply \/ RotBack

Spec == Init /\ [][Next]_vars

\* ------------------------------------------------------------ sanity of the model
\* Every number computed is a number of Q(sqrt 2) or NaN, never Unrep.
NoUnrep ==
  /\ pc \in {"basis", "angles", "top", "bottom", "left", "right", "plane_top",
              "plane_bottom", "done"} => IsRep(front) /\ IsRep(up_norm) /\ IsRep(right)
  /\ pc \in {"angles", "top", "bottom", "left", "right", "plane_top",
              "plane_bottom", "done"} => half_fov_h_rad.sh.d >= 0 /\ half_fov_h_rad.ch.d >= 0
  /\ pc \in {"top", "bottom", "left", "right", "plane_top", "plane_bottom", "done"}
       => IsRep(top_normal)
  /\ pc \in {"bottom", "left", "right", "plane_top", "plane_bottom", "done"}
       => IsRep(bottom_normal)
  /\ pc \in {"left", "right", "plane_top", "plane_bottom", "done"} => IsRep(left_normal)
  /\ pc \in {"right", "plane_top", "plane_bottom", "done"} => IsRep(right_normal)
  /\ pc \in {"rot_applied", "rot_done"} => IsRep(rotated)
  /\ pc = "rot_done" => IsRep(restored)


\* ------------------------------------------------------------ vocabulary of the claims
InPlanes == pc \in {"start", "basis", "angles", "top", "bottom", "left", "right",
                    "plane_top", "plane_bottom", "done"}

BasisBuilt == InPlanes /\ pc # "start"

NormalsBuilt == pc \in {"right", "plane_top", "plane_bottom", "done"}

Rotated == pc \in {"rot_applied", "rot_done"}

ZeroVec == Vec(0, 0, 0)

\* non-zero view direction and up that are not parallel
Valid == target # ZeroVec /\ up # ZeroVec /\ Cross(target, up) # ZeroVec

\* up perpendicular to the view direction: (front, up_norm, right) is orthonormal
Perp == Dot(target, up) = Zero

Sides == {"top", "bottom", "left", "right"}

NormalOf(s) ==
  CASE s = "top" -> top_normal
    [] s = "bottom" -> bottom_normal
    [] s = "left" -> left_normal
    [] s = "right" -> right_normal

\* ------------------------------------------------------------ C1
\* C1: for every valid input with up perpendicular to the view direction, each
\* of the four normals points away from front: dot(n, front) < 0.
C1_AllNormalsOutward ==
  (NormalsBuilt /\ Valid /\ Perp)
    => \A s \in Sides : Sign(Dot(NormalOf(s), front)) = -1

\* What the code does instead: top, bottom and left point towards front, only
\* right points away from it.
C1_Orientation ==
  (NormalsBuilt /\ Valid /\ Perp)
    => /\ Sign(Dot(top_normal, front)) = 1
       /\ Sign(Dot(bottom_normal, front)) = 1
       /\ Sign(Dot(left_normal, front)) = 1
       /\ Sign(Dot(right_normal, front)) = -1

\* ------------------------------------------------------------ C2
\* C2: with aspect 1 and an orthonormal basis, the left and right normals are
\* mirror images across the front/up plane: their components along right are
\* opposite, those along front and along up are equal.
C2_LeftRightMirror ==
  (NormalsBuilt /\ Valid /\ Perp /\ aspect = One)
    => /\ Dot(left_normal, right) = Neg(Dot(right_normal, right))
       /\ Dot(left_normal, front) = Dot(right_normal, front)
       /\ Dot(left_normal, up_norm) = Dot(right_normal, up_norm)

\* ------------------------------------------------------------ C3
\* C3: with aspect 1 and an orthonormal basis, the top and bottom normals are
\* mirror images across the front/right plane: their components along up are
\* opposite, those along front and along right are equal.
C3_TopBottomMirror ==
  (NormalsBuilt /\ Valid /\ Perp /\ aspect = One)
    => /\ Dot(top_normal, up_norm) = Neg(Dot(bottom_normal, up_norm))
       /\ Dot(top_normal, front) = Dot(bottom_normal, front)
       /\ Dot(top_normal, right) = Dot(bottom_normal, right)

C3_Witness ==
  /\ pc = "done" /\ Valid /\ Perp /\ aspect = One
  /\ top_normal # bottom_normal
  /\ Sign(Dot(top_normal, up_norm)) = -1
  /\ Sign(Dot(bottom_normal, up_norm)) = 1

C5_ZeroDirectionRejected ==
  (InPlanes /\ target = ZeroVec) => pc = "start"

C7_RotationInverse ==
  /\ pc = "rot_done" => restored = v
  /\ (Rotated /\ angle = Angle(Zero, One)) => rotated = v

C7_Witness ==
  /\ pc = "rot_done"
  /\ rotated # v
  /\ restored = v
  /\ axis[1] # Zero /\ axis[2] # Zero /\ axis[3] # Zero

\* ------------------------------------------------------------ C8
\* C8: a rotation about a unit axis preserves the squared length of the vector.
C8_LengthPreserved ==
  Rotated => Dot(rotated, rotated) = Dot(v, v)

C8_Witness ==
  /\ Rotated
  /\ rotated # v
  /\ Dot(v, v) = Int2Num(3)
  /\ Dot(rotated, rotated) = Int2Num(3)

\* ------------------------------------------------------------ C9
\* C9: for every valid input, perpendicular up or not, right is orthogonal to
\* front and to the normalized up.
C9_RightOrthogonal ==
  (BasisBuilt /\ Valid) => (Dot(right, front) = Zero /\ Dot(right, up_norm) = Zero)

C9_Witness ==
  /\ BasisBuilt /\ Valid /\ ~Perp
  /\ IsVec(right)
  /\ Dot(right, right) = One

\* ------------------------------------------------------------ C10
\* Hamilton product of quaternions [x, y, z, w], and the conjugate.
QMul(p, q) ==
  << Add(Add(Mul(p[4], q[1]), Mul(p[1], q[4])), Sub(Mul(p[2], q[3]), Mul(p[3], q[2]))),
     Add(Add(Mul(p[4], q[2]), Mul(p[2], q[4])), Sub(Mul(p[3], q[1]), Mul(p[1], q[3]))),
     Add(Add(Mul(p[4], q[3]), Mul(p[3], q[4])), Sub(Mul(p[1], q[2]), Mul(p[2], q[1]))),
     Sub(Mul(p[4], q[4]), Add(Add(Mul(p[1], q[1]), Mul(p[2], q[2])), Mul(p[3], q[3]))) >>

QConj(q) == << Neg(q[1]), Neg(q[2]), Neg(q[3]), q[4] >>

Sandwich(q, x) == QMul(QMul(q, << x[1], x[2], x[3], Zero >>), QConj(q))

\* C10: for a unit quaternion q, mul_quat_vec(q, v) is the vector part of
\* q * (v, 0) * conj(q), whose scalar part is 0.
C10_SandwichProduct ==
  Rotated => Sandwich(quat, v) = << rotated[1], rotated[2], rotated[3], Zero >>

C10_Witness ==
  /\ Rotated
  /\ rotated # v
  /\ quat[4] # Zero /\ quat[4] # One
  /\ quat[1] # Zero /\ quat[2] # Zero
  /\ Add(Add(Add(Mul(quat[1], quat[1]), Mul(quat[2], quat[2])), Mul(quat[3], quat[3])),
         Mul(quat[4], quat[4])) = One

====
